---- MODULE Spec2Model ----
(***************************************************************************)
(* Model of the WebSocket hub of taskflow-go: the Hub dispatcher           *)
(* (Hub.Run), the per-tenant rooms and their fan-out loops                 *)
(* (TenantRoom.run), the producer surface (BroadcastToTenant,              *)
(* BroadcastToUser), the presence queries, and each client's read and      *)
(* write pumps.                                                            *)
(*                                                                         *)
(* Go channels are FIFO sequences with a capacity and a closed flag; the   *)
(* hub's three input channels are unbuffered, so a send on one of them is  *)
(* a rendezvous with the dispatcher parked in its select.  A send on a     *)
(* closed channel and a close of a closed channel panic, which ends the    *)
(* process: `panicked` records it and no action is enabled afterwards.     *)
(***************************************************************************)
EXTENDS Integers, Sequences, FiniteSets, TLC

(* ------------------------------ bounds -------------------------------- *)

\* Number of Client objects HandleWebSocket may create in a run.
NumClients == 2

\* Capacity of Client.send (make(chan []byte, 256) in the source), scaled down.
SendCap == 2

\* Capacity of TenantRoom.broadcast (make(chan *Message, 256)), scaled down.
RoomCap == 2

\* Number of inputs the environment feeds the hub in a run: frames a peer
\* sends plus calls of BroadcastToTenant and BroadcastToUser.
MaxInputs == 2

\* Number of message ids that are told apart from all the others.
MaxTracked == 2

Clients == 1..NumClients
Tenants == {1, 2}
Users   == {1, 2}

\* uuid.Nil: the UserID of a message built by BroadcastToTenant.
NilUUID == 0

NoRoom == 0

(* ------------------------------ messages ------------------------------ *)

MessageTypeTaskUpdate   == "task_update"
MessageTypeNotification == "notification"
MessageTypeUserJoined   == "user_joined"
MessageTypeUserLeft     == "user_left"
MessageTypeTyping       == "typing"
MessageTypePing         == "ping"
MessageTypePong         == "pong"
MessageTypeError        == "error"

NoData == <<>>

\* The Message struct (Timestamp and Meta play no part in routing).
Message(type, userID, tenantID, messageID, data) ==
    [Type |-> type, UserID |-> userID, TenantID |-> tenantID,
     MessageID |-> messageID, Data |-> data]

\* A message id is a fresh uuid.  The program never inspects one, so the model
\* keeps MaxTracked of them distinct (1, 2, ...) and lets every other id be
\* UntrackedID: two messages with tracked ids are different messages.
UntrackedID == 0

NoMessage == Message("", NilUUID, NilUUID, UntrackedID, NoData)

\* json.Marshal(message): the JSON object with the struct's json tags.
Marshal(m) ==
    [type |-> m.Type, data |-> m.Data, user_id |-> m.UserID,
     tenant_id |-> m.TenantID, message_id |-> m.MessageID]

\* getUsername(user): the display name snapshotted when the client is built.
getUsername(userID) == <<"name", userID>>

\* Raw inbound frames: bytes that are not JSON, or a JSON object whose
\* type, user_id and tenant_id the peer chose.
Garbage == [json |-> FALSE]

FrameTypes == {MessageTypePing, MessageTypeTyping, MessageTypeUserJoined}

Frames ==
    {Garbage} \cup [json : {TRUE}, type : FrameTypes, user_id : Users,
                     tenant_id : Tenants]

\* json.Unmarshal(messageBytes, &incomingMessage)
Unmarshal(frame) ==
    IF ~frame.json
    THEN [err |-> TRUE, msg |-> NoMessage]
    ELSE [err |-> FALSE,
          msg |-> Message(frame.type, frame.user_id, frame.tenant_id,
                          UntrackedID, "d")]

(* ------------------------------- state -------------------------------- *)

VARIABLES
    tenants,    \* Hub.tenants: tenant -> room (NoRoom when absent)
    hpc,        \* where the dispatcher goroutine (Hub.Run) is
    harg,       \* the client the dispatcher is registering / unregistering
    created,    \* number of Client objects built so far
    client,     \* client -> [UserID, UserName, TenantID]
    send,       \* Client.send: buffered frames
    closed,     \* Client.send has been closed
    rp,         \* where the client's readPump is
    rpmsg,      \* readPump's incomingMessage while it waits on hub.broadcast
    wp,         \* where the client's writePump is
    roomTenant, \* TenantRoom.TenantID
    rclients,   \* TenantRoom.clients
    rqueue,     \* TenantRoom.broadcast
    rpc,        \* where the room's run goroutine is
    rmsg,       \* the message run took off the queue
    panicked,   \* the process died of a runtime panic
    inputs,     \* frames read and producer calls made so far
    tracked,    \* number of tracked message ids issued so far
    enq,        \* per room, the tracked ids in the order they were enqueued
    wire        \* per client, the tracked ids in the order writePump wrote them

vars == <<tenants, hpc, harg, created, client, send, closed, rp, rpmsg, wp,
          roomTenant, rclients, rqueue, rpc, rmsg, panicked, inputs, tracked,
          enq, wire>>

hubVars    == <<tenants, hpc, harg>>
roomVars   == <<roomTenant, rclients, rqueue, rpc, rmsg>>
pumpVars   == <<rp, rpmsg, wp>>

NoClient == [UserID |-> NilUUID, UserName |-> <<>>, TenantID |-> NilUUID]

\* Rooms are named after the client whose registration created them.
Rooms == Clients

NoPanic == "none"

\* The state NewHub leaves, before any connection is accepted.
NewHub ==
    /\ tenants = [t \in Tenants |-> NoRoom]
    /\ hpc = "idle"
    /\ harg = 0
    /\ created = 0
    /\ client = [c \in Clients |-> NoClient]
    /\ send = [c \in Clients |-> <<>>]
    /\ closed = [c \in Clients |-> FALSE]
    /\ rp = [c \in Clients |-> "off"]
    /\ rpmsg = [c \in Clients |-> NoMessage]
    /\ wp = [c \in Clients |-> "off"]
    /\ roomTenant = [r \in Rooms |-> NilUUID]
    /\ rclients = [r \in Rooms |-> {}]
    /\ rqueue = [r \in Rooms |-> <<>>]
    /\ rpc = [r \in Rooms |-> "none"]
    /\ rmsg = [r \in Rooms |-> NoMessage]
    /\ panicked = NoPanic
    /\ inputs = 0
    /\ enq = [r \in Rooms |-> <<>>]
    /\ wire = [c \in Clients |-> <<>>]

\* Every message id is untracked.
Init == NewHub /\ tracked = MaxTracked

\* The first MaxTracked ids that are tracked may go to any messages.
InitTracking == NewHub /\ tracked = 0

(* ------------------------------ helpers ------------------------------- *)

\* No goroutine recovers from a panic: it ends the process.
Alive == panicked = NoPanic

\* generateMessageID() / uuid.New().String(): the ids a new message may get,
\* an untracked one or the next tracked one.
generateMessageID ==
    {UntrackedID} \cup {i \in {tracked + 1} : i <= MaxTracked}

\* Bookkeeping of the tracked ids handed out.
Issue(id) == tracked' = IF id = UntrackedID THEN tracked ELSE id

\* The tracked ids of a sequence of ids, in order.
RECURSIVE TrackedOf(_)
TrackedOf(ids) ==
    IF ids = <<>> THEN <<>>
    ELSE IF Head(ids) = UntrackedID THEN TrackedOf(Tail(ids))
    ELSE <<Head(ids)>> \o TrackedOf(Tail(ids))

\* The three ways `select { case ch <- b: default: }` can go on a Client.send.
SendOutcome(c) ==
    IF closed[c] THEN "panic"
    ELSE IF Len(send[c]) < SendCap THEN "sent"
    ELSE "full"

\* A hub that keeps one room for every tenant: whatever the tenant id, the
\* lookup finds the first room of the map.
RoomOfAny(tenantID) ==
    LET live == {t \in DOMAIN tenants : tenants[t] # NoRoom} IN
    IF live = {} THEN NoRoom
    ELSE tenants[CHOOSE t \in live : \A u \in live : t <= u]

\* The room a tenant id maps to in Hub.tenants.
RoomOf(tenantID) == tenants[tenantID]

\* Hub.mu is write-locked: the dispatcher is inside registerClient or
\* unregisterClient, parked on its send to the room's broadcast channel.
HubWriteLocked == hpc \in {"reg_send", "unreg_send"}

\* TenantRoom.mu of room r is write-locked (unregisterClient defers Unlock).
RoomWriteLocked(r) ==
    /\ hpc = "unreg_send"
    /\ RoomOf(client[harg].TenantID) = r

\* Client.conn is open until a pump returns: both pumps defer c.conn.Close().
ConnOpen(c) == wp[c] = "run" /\ rp[c] \in {"read", "send_bcast"}

\* `room.broadcast <- message` has gone through: the message is on the
\* room's queue.
Enqueue(r, message) ==
    /\ rqueue' = [rqueue EXCEPT ![r] = Append(@, message)]
    /\ enq' = [enq EXCEPT ![r] = @ \o TrackedOf(<<message.MessageID>>)]

(* ----------------------------- fan-out -------------------------------- *)

\* The loop body shared by TenantRoom.run and Hub.BroadcastToUser:
\*     select { case client.send <- messageBytes:
\*              default: close(client.send); delete(room.clients, client) }
\* applied to every client of `targets`, members of room r.
DeliverTo(r, targets, bytes) ==
    IF \E c \in targets : SendOutcome(c) = "panic"
    THEN /\ panicked' = "send on closed channel"
         /\ UNCHANGED <<send, closed, rclients>>
    ELSE /\ send' = [c \in Clients |->
                        IF c \in targets /\ SendOutcome(c) = "sent"
                        THEN Append(send[c], bytes) ELSE send[c]]
         /\ closed' = [c \in Clients |->
                        closed[c] \/ (c \in targets /\ SendOutcome(c) = "full")]
         /\ rclients' = [rclients EXCEPT ![r] =
                        @ \ {c \in targets : SendOutcome(c) = "full"}]
         /\ UNCHANGED panicked

(* ------------------------------- hub ---------------------------------- *)

\* A registerClient that never looks the tenant up: every registration makes
\* a new room and puts it in the map.
registerClientAlwaysNew(c, tenantID) ==
    /\ tenants' = [tenants EXCEPT ![tenantID] = c]
    /\ roomTenant' = [roomTenant EXCEPT ![c] = tenantID]
    /\ rpc' = [rpc EXCEPT ![c] = "recv"]
    /\ rclients' = [rclients EXCEPT ![c] = {c}]

\* registerClient, up to its send on room.broadcast: get or create the
\* tenant's room (starting its run goroutine) and add the client to it.
registerClient(c, tenantID) ==
    LET room == IF RoomOf(tenantID) = NoRoom THEN c ELSE RoomOf(tenantID) IN
    /\ IF RoomOf(tenantID) = NoRoom
       THEN /\ tenants' = [tenants EXCEPT ![tenantID] = c]
            /\ roomTenant' = [roomTenant EXCEPT ![c] = tenantID]
            /\ rpc' = [rpc EXCEPT ![c] = "recv"]
       ELSE UNCHANGED <<tenants, roomTenant, rpc>>
    /\ rclients' = [rclients EXCEPT ![room] = @ \cup {c}]

\* The identities the authentication middleware can hand to HandleWebSocket.
\* Tenant and user ids are uuids that the program only compares for equality,
\* so they are named in order of first appearance: a new connection carries
\* an id already seen or the least unseen one.
SeenTenants == {client[c].TenantID : c \in 1..created}
SeenUsers   == {client[c].UserID : c \in 1..created}
AuthTenants == {t \in Tenants : \A t2 \in Tenants : t2 < t => t2 \in SeenTenants}
AuthUsers   == {u \in Users : \A u2 \in Users : u2 < u => u2 \in SeenUsers}

\* HandleWebSocket: build the Client from the authenticated identity, hand it
\* to the dispatcher on hub.register (a rendezvous: the channel is
\* unbuffered), start both pumps.  The dispatcher runs registerClient up to
\* its channel send.
HandleWebSocket(c, uid, tid) ==
    /\ Alive
    /\ hpc = "idle"
    /\ c = created + 1
    /\ created' = c
    /\ client' = [client EXCEPT ![c] =
           [UserID |-> uid, UserName |-> getUsername(uid), TenantID |-> tid]]
    /\ rp' = [rp EXCEPT ![c] = "read"]
    /\ wp' = [wp EXCEPT ![c] = "run"]
    /\ registerClient(c, tid)
    /\ hpc' = "reg_send"
    /\ harg' = c
    /\ UNCHANGED <<send, closed, rpmsg, rqueue, rmsg, panicked, inputs,
                   tracked, enq, wire>>

\* The presence message registerClient / unregisterClient synthesizes.
PresenceMessage(type, c, id) ==
    Message(type, client[c].UserID, client[c].TenantID, id,
            [user_id |-> client[c].UserID, user_name |-> client[c].UserName])

\* registerClient's `room.broadcast <- joinMessage`: blocks while the room's
\* queue is full; the deferred h.mu.Unlock() follows.
RegisterSend ==
    LET room == RoomOf(client[harg].TenantID) IN
    /\ Alive
    /\ hpc = "reg_send"
    /\ Len(rqueue[room]) < RoomCap
    /\ \E id \in generateMessageID :
          /\ Enqueue(room, PresenceMessage(MessageTypeUserJoined, harg, id))
          /\ Issue(id)
    /\ hpc' = "idle"
    /\ harg' = 0
    /\ UNCHANGED <<tenants, created, client, send, closed, pumpVars,
                   roomTenant, rclients, rpc, rmsg, panicked, inputs, wire>>

\* An unregisterClient without the membership check: it closes the queue of
\* whatever connection it is handed, as long as the tenant has a room.
unregisterClientUnchecked(c) ==
    LET room == RoomOf(client[c].TenantID) IN
    IF room = NoRoom
    THEN UNCHANGED <<hpc, harg, rclients, closed, panicked>>
    ELSE IF closed[c]
    THEN /\ rclients' = [rclients EXCEPT ![room] = @ \ {c}]
         /\ panicked' = "close of closed channel"
         /\ UNCHANGED <<hpc, harg, closed>>
    ELSE /\ rclients' = [rclients EXCEPT ![room] = @ \ {c}]
         /\ closed' = [closed EXCEPT ![c] = TRUE]
         /\ hpc' = "unreg_send"
         /\ harg' = c
         /\ UNCHANGED panicked

\* unregisterClient, up to its send on room.broadcast.  The client leaves the
\* member set before close(client.send), which panics on a closed channel.
unregisterClient(c) ==
    LET room == RoomOf(client[c].TenantID) IN
    IF room = NoRoom \/ c \notin rclients[room]
    THEN UNCHANGED <<hpc, harg, rclients, closed, panicked>>
    ELSE IF closed[c]
    THEN /\ rclients' = [rclients EXCEPT ![room] = @ \ {c}]
         /\ panicked' = "close of closed channel"
         /\ UNCHANGED <<hpc, harg, closed>>
    ELSE /\ rclients' = [rclients EXCEPT ![room] = @ \ {c}]
         /\ closed' = [closed EXCEPT ![c] = TRUE]
         /\ hpc' = "unreg_send"
         /\ harg' = c
         /\ UNCHANGED panicked

\* readPump: ReadMessage fails (the peer closed, the read deadline passed, or
\* the write pump closed the connection), the loop breaks and the deferred
\* `c.hub.unregister <- c; c.conn.Close()` runs: a rendezvous with the
\* dispatcher, which runs unregisterClient up to its channel send.
Unregister(c) ==
    /\ Alive
    /\ rp[c] = "read"
    /\ hpc = "idle"
    /\ rp' = [rp EXCEPT ![c] = "done"]
    /\ unregisterClient(c)
    /\ UNCHANGED <<tenants, created, client, send, rpmsg, wp,
                   roomTenant, rqueue, rpc, rmsg, inputs, tracked, enq, wire>>

\* An unregisterClient that sends the leave notice and never cleans up: the
\* room of a tenant stays in the map when its last member has left.
UnregisterSendKeepRoom ==
    LET room == RoomOf(client[harg].TenantID) IN
    /\ Alive
    /\ hpc = "unreg_send"
    /\ Len(rqueue[room]) < RoomCap
    /\ \E id \in generateMessageID :
          /\ Enqueue(room, PresenceMessage(MessageTypeUserLeft, harg, id))
          /\ Issue(id)
    /\ hpc' = "idle"
    /\ harg' = 0
    /\ UNCHANGED <<tenants, created, client, send, closed, pumpVars,
                   roomTenant, rclients, rpc, rmsg, panicked, inputs, wire>>

\* unregisterClient's `room.broadcast <- leaveMessage`, then the clean-up of
\* an empty room and the deferred unlocks.
UnregisterSend ==
    LET tid  == client[harg].TenantID
        room == RoomOf(tid) IN
    /\ Alive
    /\ hpc = "unreg_send"
    /\ Len(rqueue[room]) < RoomCap
    /\ \E id \in generateMessageID :
          /\ Enqueue(room, PresenceMessage(MessageTypeUserLeft, harg, id))
          /\ Issue(id)
    /\ tenants' = IF rclients[room] = {}
                  THEN [tenants EXCEPT ![tid] = NoRoom] ELSE tenants
    /\ hpc' = "idle"
    /\ harg' = 0
    /\ UNCHANGED <<created, client, send, closed, pumpVars,
                   roomTenant, rclients, rpc, rmsg, panicked, inputs, wire>>

\* A broadcastMessage that makes space on a full room queue by throwing the
\* oldest queued message away.
broadcastMessageEvictOldest(message) ==
    LET room == RoomOf(message.TenantID) IN
    IF room = NoRoom
    THEN UNCHANGED <<rqueue, enq>>
    ELSE IF Len(rqueue[room]) >= RoomCap
    THEN /\ rqueue' = [rqueue EXCEPT ![room] = Append(Tail(@), message)]
         /\ enq' = [enq EXCEPT ![room] = @ \o TrackedOf(<<message.MessageID>>)]
    ELSE Enqueue(room, message)

\* A broadcastMessage that buffers for a tenant without a room: the message
\* waits on the queue the tenant's next room will be given.
broadcastMessageBuffered(message) ==
    LET room == RoomOf(message.TenantID) IN
    IF room = NoRoom
    THEN IF created < NumClients /\ Len(rqueue[created + 1]) < RoomCap
         THEN Enqueue(created + 1, message)
         ELSE UNCHANGED <<rqueue, enq>>
    ELSE IF Len(rqueue[room]) >= RoomCap
    THEN UNCHANGED <<rqueue, enq>>
    ELSE Enqueue(room, message)

\* A broadcastMessage that ignores the message's tenant and routes to the
\* first room of the map.
broadcastMessageAnyRoom(message) ==
    LET live == {t \in Tenants : tenants[t] # NoRoom}
        room == IF live = {} THEN NoRoom
                ELSE tenants[CHOOSE t \in live : \A u \in live : t <= u] IN
    IF room = NoRoom \/ Len(rqueue[room]) >= RoomCap
    THEN UNCHANGED <<rqueue, enq>>
    ELSE Enqueue(room, message)

\* broadcastMessage: route to the tenant's room with a non-blocking send.
broadcastMessage(message) ==
    LET room == RoomOf(message.TenantID) IN
    IF room = NoRoom \/ Len(rqueue[room]) >= RoomCap
    THEN UNCHANGED <<rqueue, enq>>
    ELSE Enqueue(room, message)

\* BroadcastToTenant: a non-blocking send on the unbuffered hub.broadcast.
\* It gets through only while the dispatcher is parked in its select, and
\* the dispatcher then runs broadcastMessage; otherwise the `default` branch
\* drops the message.
BroadcastToTenant(tenantID, messageType) ==
    /\ Alive
    /\ inputs < MaxInputs
    /\ inputs' = inputs + 1
    /\ \E id \in generateMessageID :
          /\ IF hpc = "idle"
             THEN broadcastMessage(
                      Message(messageType, NilUUID, tenantID, id, "d"))
             ELSE UNCHANGED <<rqueue, enq>>
          /\ Issue(id)
    /\ UNCHANGED <<hubVars, created, client, send, closed, pumpVars,
                   roomTenant, rclients, rpc, rmsg, panicked, wire>>

\* BroadcastToUser: under h.mu.RLock and room.mu.RLock; returns at once when
\* the tenant has no room.
BroadcastToUser(tenantID, userID, messageType) ==
    LET room == RoomOf(tenantID) IN
    /\ Alive
    /\ inputs < MaxInputs
    /\ inputs' = inputs + 1
    /\ ~HubWriteLocked
    /\ IF room = NoRoom
       THEN UNCHANGED <<send, closed, rclients, panicked, tracked>>
       ELSE \E id \in generateMessageID :
               /\ DeliverTo(room,
                      {c \in rclients[room] : client[c].UserID = userID},
                      Marshal(Message(messageType, userID, tenantID, id, "d")))
               /\ Issue(id)
    /\ UNCHANGED <<hubVars, created, client, pumpVars,
                   roomTenant, rqueue, rpc, rmsg, enq, wire>>

\* The slices that `for k := range m { s = append(s, k) }` can build from a
\* map with key set S: every key once, in whatever order the range takes.
KeySlices(S) ==
    {q \in [1..Cardinality(S) -> S] :
        \A i, j \in 1..Cardinality(S) : i # j => q[i] # q[j]}

\* GetOnlineUsers: the user ids of the room's clients become the keys of
\* userMap, and the keys are listed.  The slices the call can return.
GetOnlineUsers(tenantID) ==
    IF RoomOf(tenantID) = NoRoom THEN {<<>>}
    ELSE KeySlices({client[c].UserID : c \in rclients[RoomOf(tenantID)]})

\* GetClientCount
GetClientCount(tenantID) ==
    IF RoomOf(tenantID) = NoRoom THEN 0
    ELSE Cardinality(rclients[RoomOf(tenantID)])

\* The loop of room r is in a fan-out that deletes a member from tr.clients,
\* which it does holding tr.mu.RLock only.
FanOutDeletes(r) ==
    /\ rpc[r] = "fan"
    /\ ~RoomWriteLocked(r)
    /\ \E c \in rclients[r] : SendOutcome(c) = "full"

\* WebSocketHandler.GetOnlineUsers: calls the hub's GetOnlineUsers and
\* GetClientCount, which take h.mu.RLock and room.mu.RLock and write nothing:
\* a call is a step that changes no variable.  The call taken here is the one
\* whose range over room.clients overlaps the delete of a fan-out holding the
\* same read lock: a data race on the map, which the runtime lets pass or
\* ends with a fatal error.
WebSocketHandlerGetOnlineUsers(tenantID) ==
    /\ Alive
    /\ ~HubWriteLocked
    /\ RoomOf(tenantID) # NoRoom
    /\ FanOutDeletes(RoomOf(tenantID))
    /\ \/ UNCHANGED panicked
       \/ panicked' = "concurrent map iteration and map write"
    /\ UNCHANGED <<hubVars, created, client, send, closed, pumpVars,
                   roomVars, inputs, tracked, enq, wire>>

(* ------------------------------- room --------------------------------- *)

\* TenantRoom.run, `for message := range tr.broadcast`: take the next message.
RoomReceive(r) ==
    /\ Alive
    /\ rpc[r] = "recv"
    /\ rqueue[r] # <<>>
    /\ rmsg' = [rmsg EXCEPT ![r] = Head(rqueue[r])]
    /\ rqueue' = [rqueue EXCEPT ![r] = Tail(@)]
    /\ rpc' = [rpc EXCEPT ![r] = "fan"]
    /\ UNCHANGED <<hubVars, created, client, send, closed, pumpVars,
                   roomTenant, rclients, panicked, inputs, tracked, enq, wire>>

\* TenantRoom.run, the loop body: under tr.mu.RLock, marshal the message and
\* offer it to every client of the room.
RoomFanOut(r) ==
    /\ Alive
    /\ rpc[r] = "fan"
    /\ ~RoomWriteLocked(r)
    /\ DeliverTo(r, rclients[r], Marshal(rmsg[r]))
    /\ rmsg' = [rmsg EXCEPT ![r] = NoMessage]
    /\ rpc' = [rpc EXCEPT ![r] = "recv"]
    /\ UNCHANGED <<hubVars, created, client, pumpVars, roomTenant, rqueue,
                   inputs, tracked, enq, wire>>

(* ------------------------------ client -------------------------------- *)

\* The reply handlePing and sendError put on the client's own queue:
\*     select { case c.send <- messageBytes: default: close(c.send) }
Reply(c, message) ==
    CASE SendOutcome(c) = "panic" ->
            /\ panicked' = "send on closed channel"
            /\ UNCHANGED <<send, closed>>
      [] SendOutcome(c) = "sent" ->
            /\ send' = [send EXCEPT ![c] = Append(@, Marshal(message))]
            /\ UNCHANGED <<closed, panicked>>
      [] SendOutcome(c) = "full" ->
            /\ closed' = [closed EXCEPT ![c] = TRUE]
            /\ UNCHANGED <<send, panicked>>

\* handlePing
handlePing(c, id) ==
    Reply(c, Message(MessageTypePong, client[c].UserID, client[c].TenantID,
                     id, NoData))

\* sendError
sendError(c, errorMsg, id) ==
    Reply(c, Message(MessageTypeError, client[c].UserID, client[c].TenantID,
                     id, [error |-> errorMsg]))

\* A readPump that trusts the identity the frame carries and only replaces
\* the message id.
StampKeepIdentity(c, message, id) ==
    [message EXCEPT !.MessageID = id]

\* readPump, "Set client information": the connection's own identity and a
\* fresh id replace whatever the frame carried.
Stamp(c, message, id) ==
    [message EXCEPT !.UserID = client[c].UserID,
                    !.TenantID = client[c].TenantID,
                    !.MessageID = id]

\* handleTyping: stamps the identity again before handing to the hub.
handleTyping(c, message) ==
    [message EXCEPT !.UserID = client[c].UserID,
                    !.TenantID = client[c].TenantID]

\* handleMessage: a ping is answered directly; a typing frame and every
\* other type go to hub.broadcast, a send the pump blocks on.
handleMessage(c, message, id) ==
    IF message.Type = MessageTypePing
    THEN /\ handlePing(c, id)
         /\ UNCHANGED <<rp, rpmsg>>
    ELSE /\ rpmsg' = [rpmsg EXCEPT ![c] =
                IF message.Type = MessageTypeTyping
                THEN handleTyping(c, message) ELSE message]
         /\ rp' = [rp EXCEPT ![c] = "send_bcast"]
         /\ UNCHANGED <<send, closed, panicked>>

\* readPump: one frame read from the peer, parsed, stamped and dispatched.
\* Each message built on the way takes a fresh id.
ReadFrame(c, frame) ==
    /\ Alive
    /\ inputs < MaxInputs
    /\ inputs' = inputs + 1
    /\ rp[c] = "read"
    /\ ConnOpen(c)
    /\ \E id \in generateMessageID :
          /\ IF Unmarshal(frame).err
             THEN /\ sendError(c, "Invalid message format", id)
                  /\ UNCHANGED <<rp, rpmsg>>
             ELSE handleMessage(c, Stamp(c, Unmarshal(frame).msg, id), id)
          /\ Issue(id)
    /\ UNCHANGED <<hubVars, created, client, wp, roomVars, enq, wire>>

\* readPump blocked on `c.hub.broadcast <- message`: the dispatcher takes the
\* message and runs broadcastMessage.
RouteFrame(c) ==
    /\ Alive
    /\ rp[c] = "send_bcast"
    /\ hpc = "idle"
    /\ broadcastMessage(rpmsg[c])
    /\ rp' = [rp EXCEPT ![c] = "read"]
    /\ rpmsg' = [rpmsg EXCEPT ![c] = NoMessage]
    /\ UNCHANGED <<hubVars, created, client, send, closed, wp,
                   roomTenant, rclients, rpc, rmsg, panicked, inputs, tracked,
                   wire>>

\* A write pump that writes the frames of a batch last-queued first.
WriteOrderReversed(q) ==
    [i \in 1..Len(q) |-> q[Len(q) + 1 - i]]

\* The order in which writePump writes a batch: the frame it received, then
\* the n = len(c.send) frames queued behind it, oldest first.
WriteOrder(q) ==
    <<Head(q)>> \o [i \in 1..(Len(q) - 1) |-> q[i + 1]]

\* The message ids of a sequence of frames, in order.
FrameIDs(q) == [i \in 1..Len(q) |-> q[i].message_id]

\* writePump: a frame arrives on c.send; it and the frames queued behind it
\* go out as one websocket message.
WriteBatch(c) ==
    /\ Alive
    /\ wp[c] = "run"
    /\ ConnOpen(c)
    /\ send[c] # <<>>
    /\ wire' = [wire EXCEPT ![c] = @ \o TrackedOf(FrameIDs(WriteOrder(send[c])))]
    /\ send' = [send EXCEPT ![c] = <<>>]
    /\ UNCHANGED <<hubVars, created, client, closed, pumpVars,
                   roomVars, panicked, inputs, tracked, enq>>

\* writePump: c.send is closed and drained (`!ok`): write the close frame,
\* return, and the deferred c.conn.Close() runs.
WriteClosed(c) ==
    /\ Alive
    /\ wp[c] = "run"
    /\ send[c] = <<>>
    /\ closed[c]
    /\ wp' = [wp EXCEPT ![c] = "done"]
    /\ UNCHANGED <<hubVars, created, client, send, closed, rp, rpmsg,
                   roomVars, panicked, inputs, tracked, enq, wire>>

\* writePump: the connection has been closed under it (readPump returned and
\* ran c.conn.Close()), so its next write fails and the pump returns.  A
\* failure that starts at the peer reaches readPump as a read error: that is
\* Unregister.
WriteFail(c) ==
    /\ Alive
    /\ wp[c] = "run"
    /\ rp[c] = "done"
    /\ wp' = [wp EXCEPT ![c] = "done"]
    /\ UNCHANGED <<hubVars, created, client, send, closed, rp, rpmsg,
                   roomVars, panicked, inputs, tracked, enq, wire>>

\* The steps of the dispatcher's register and unregister cases, of the rooms
\* and of the pumps that go on without anything arriving from a peer.
Machinery ==
    \/ \E c \in Clients, uid \in AuthUsers, tid \in AuthTenants :
           HandleWebSocket(c, uid, tid)
    \/ RegisterSend
    \/ \E c \in Clients : Unregister(c)
    \/ UnregisterSend
    \/ \E r \in Rooms : RoomReceive(r)
    \/ \E r \in Rooms : RoomFanOut(r)
    \/ \E c \in Clients : WriteBatch(c)
    \/ \E c \in Clients : WriteClosed(c)
    \/ \E c \in Clients : WriteFail(c)

(* ---------------------------- specification --------------------------- *)

Next ==
    \/ Machinery
    \/ \E tid \in Tenants : BroadcastToTenant(tid, MessageTypeTaskUpdate)
    \/ \E tid \in Tenants, uid \in Users :
           BroadcastToUser(tid, uid, MessageTypeNotification)
    \/ \E c \in Clients, frame \in Frames : ReadFrame(c, frame)
    \/ \E c \in Clients : RouteFrame(c)
    \/ \E tid \in Tenants : WebSocketHandlerGetOnlineUsers(tid)

Spec == Init /\ [][Next]_vars

\* The same program with tracked ids and silent peers: the messages are the
\* presence notices and the tenant broadcasts.
NextTracking ==
    \/ Machinery
    \/ \E tid \in Tenants : BroadcastToTenant(tid, MessageTypeTaskUpdate)

SpecTracking == InitTracking /\ [][NextTracking]_vars

(* ------------------------------- claims ------------------------------- *)

\* The clients HandleWebSocket has built.
Built == 1..created

\* c is in the member set of the room its tenant maps to.
IsMember(c) ==
    /\ c \in Built
    /\ RoomOf(client[c].TenantID) # NoRoom
    /\ c \in rclients[RoomOf(client[c].TenantID)]

\* C1. Tenant isolation: every frame on a connection's outbound queue carries
\* that connection's tenant id, whichever path put it there; a message
\* broadcast to one tenant is never queued for a connection of another.
TenantIsolation ==
    \A c \in Clients : \A i \in 1..Len(send[c]) :
        send[c][i].tenant_id = client[c].TenantID

\* Two tenants are connected and a tenant broadcast for the first has been
\* fanned out to its connection.
TenantIsolationWitness ==
    \E c1, c2 \in Built :
        /\ client[c1].TenantID = 1
        /\ client[c2].TenantID = 2
        /\ IsMember(c2)
        /\ \E i \in 1..Len(send[c1]) :
               send[c1][i].type = MessageTypeTaskUpdate

\* C2. Single room membership: a connection is in the member set of at most
\* one room, counting the rooms already removed from the hub's map, and that
\* room is its tenant's.
SingleRoomMembership ==
    \A c \in Clients :
        /\ Cardinality({r \in Rooms : c \in rclients[r]}) <= 1
        /\ \A r \in Rooms : c \in rclients[r] => roomTenant[r] = client[c].TenantID

\* A tenant's room was removed, and its second room has a member, while a
\* room of the other tenant has one too.
SingleRoomMembershipWitness ==
    \E r1, r2 \in Rooms :
        /\ r1 # r2
        /\ rpc[r1] # "none"
        /\ rpc[r2] # "none"
        /\ rclients[r2] # {}
        /\ \/ roomTenant[r1] = roomTenant[r2] /\ RoomOf(roomTenant[r1]) = r2
           \/ roomTenant[r1] # roomTenant[r2] /\ rclients[r1] # {}

\* C3. Room lifecycle: whenever the dispatcher is idle, a tenant id is a key
\* of the rooms map exactly if that room has a member; no empty room stays in
\* the map.
RoomLifecycle ==
    hpc = "idle" =>
        /\ \A t \in Tenants : RoomOf(t) # NoRoom => rclients[RoomOf(t)] # {}
        /\ \A r \in Rooms :
               rclients[r] # {} => RoomOf(roomTenant[r]) = r

\* C4. Anti-spoofing: the message a read pump hands to the hub carries the
\* connection's authenticated user and tenant ids, whatever the frame said.
AntiSpoofing ==
    \A c \in Clients :
        rp[c] = "send_bcast" =>
            /\ rpmsg[c].UserID = client[c].UserID
            /\ rpmsg[c].TenantID = client[c].TenantID

\* The second connection, of user 2 in tenant 2, routes a frame; the frames it
\* can send name user 1 and tenant 1 as well.
AntiSpoofingWitness ==
    \E c \in Built :
        /\ rp[c] = "send_bcast"
        /\ client[c].UserID = 2
        /\ client[c].TenantID = 2

\* The elements of a sequence, and the place of one of them.
Range(q) == {q[i] : i \in 1..Len(q)}
Pos(q, x) == CHOOSE i \in 1..Len(q) : q[i] = x

\* The tracked ids a connection has been given, in order: those its write
\* pump wrote, then those still on its outbound queue.
Received(c) == wire[c] \o TrackedOf(FrameIDs(send[c]))

\* C5. Per-room FIFO: two messages enqueued on the same room's broadcast
\* queue reach every connection that gets both in the order of their
\* enqueueing, on its outbound queue and in what its write pump writes,
\* batches included.
FifoPerRoom ==
    \A c \in Clients, r \in Rooms :
        \A i, j \in 1..Len(Received(c)) :
            (/\ i < j
             /\ Received(c)[i] \in Range(enq[r])
             /\ Received(c)[j] \in Range(enq[r]))
            => Pos(enq[r], Received(c)[i]) < Pos(enq[r], Received(c)[j])

\* A write pump has written both messages enqueued on a room's queue.
FifoPerRoomWitness ==
    \E c \in Built, r \in Rooms :
        /\ Len(enq[r]) = 2
        /\ wire[c] = enq[r]

\* C6. Idempotent teardown: an unregister processed for a connection that is
\* not a member of its tenant's room changes neither the rooms map, nor a
\* member set, nor an outbound queue, closes nothing and emits no UserLeft.
IdempotentTeardown ==
    [][\A c \in Clients :
          (rp[c] = "read" /\ rp'[c] = "done" /\ ~IsMember(c))
          => /\ UNCHANGED <<tenants, rclients, send, closed, rqueue, hpc>>
             /\ panicked' = NoPanic]_vars

\* The only connection was dropped as a slow consumer, so its room is still
\* in the map, and its unregister has been processed.
IdempotentTeardownWitness ==
    /\ created = 1
    /\ rp[1] = "done"
    /\ hpc = "idle"
    /\ closed[1]
    /\ RoomOf(client[1].TenantID) # NoRoom
    /\ panicked = NoPanic

\* The outbound queue of c is full.
Full(c) == Len(send[c]) >= SendCap

\* C7. Targeted delivery: BroadcastToUser(T, u) puts the message on the
\* queue of every member of T's room of user u that has queue space, touches
\* the queue of no connection of another user or tenant, and does nothing
\* when T has no room.
TargetedDelivery ==
    [][\A tid \in Tenants, uid \in Users :
          BroadcastToUser(tid, uid, MessageTypeNotification)
          => /\ \A c \in Clients :
                   (IsMember(c) /\ client[c].TenantID = tid
                      /\ client[c].UserID = uid /\ ~closed[c] /\ ~Full(c))
                   => /\ Len(send'[c]) = Len(send[c]) + 1
                      /\ send'[c][Len(send'[c])].type = MessageTypeNotification
                      /\ send'[c][Len(send'[c])].user_id = uid
                      /\ send'[c][Len(send'[c])].tenant_id = tid
             /\ \A c \in Clients :
                   (client[c].UserID # uid \/ client[c].TenantID # tid)
                   => send'[c] = send[c] /\ closed'[c] = closed[c]
             /\ RoomOf(tid) = NoRoom
                   => UNCHANGED <<tenants, rclients, send, closed, rqueue>>]_vars

\* C8. Slow consumer on targeted send: a matching connection whose queue is
\* full is closed and removed from the room within the call; every other
\* member keeps its membership, and its queue unless the send is for it.
SlowConsumerTargeted ==
    [][\A tid \in Tenants, uid \in Users :
          (BroadcastToUser(tid, uid, MessageTypeNotification)
             /\ RoomOf(tid) # NoRoom)
          => LET room  == RoomOf(tid)
                 match == {c \in rclients[room] : client[c].UserID = uid}
                 slow  == {c \in match : Full(c)}
             IN  /\ \A v \in slow : closed'[v] /\ v \notin rclients'[room]
                 /\ \A o \in rclients[room] \ slow :
                       /\ o \in rclients'[room]
                       /\ o \notin match => send'[o] = send[o]]_vars

\* C9. Fan-out drop policy: the room's loop removes a member whose queue is
\* full or closed, leaving the queue closed, without a fault, and every other
\* member gets the message.
FanOutDrop ==
    [][\A r \in Rooms :
          (rpc[r] = "fan" /\ rpc'[r] = "recv")
          => /\ panicked' = NoPanic
             /\ \A c \in rclients[r] :
                   IF closed[c] \/ Full(c)
                   THEN c \notin rclients'[r] /\ closed'[c]
                   ELSE /\ c \in rclients'[r]
                        /\ send'[c] = Append(send[c], Marshal(rmsg[r]))]_vars

\* C10. Uniform backpressure: a connection whose outbound queue is closed is
\* a member of no room, whichever producer found the queue full.
ClosedNotMember ==
    \A c \in Clients : closed[c] => \A r \in Rooms : c \notin rclients[r]

\* The steps the program takes by itself, with nothing arriving from a peer
\* or a producer.
Progress == Machinery \/ \E c \in Clients : RouteFrame(c)

\* C11. Exactly-once unregistration: a connection whose pumps were started
\* hands one unregister request to the hub, never a second one, and never
\* none: as long as it has not, the program can still take a step, and once
\* it has, its read pump is over for good.
ExactlyOnceUnregister ==
    /\ [](\A c \in Built : rp[c] # "done" => ENABLED Progress)
    /\ [][\A c \in Built : rp[c] = "done" => rp'[c] = "done"]_vars

\* C12. Register effect: processing register(c) creates the room of c's
\* tenant, with a new loop, only if the tenant has none and otherwise reuses
\* it as it is; c joins that room; one UserJoined naming c, with c's user id
\* and name as payload, goes on that room's queue; no other room changes.
RegisterEffect ==
    [][/\ (hpc = "idle" /\ hpc' = "reg_send")
          => LET c    == harg'
                 tid  == client'[c].TenantID
                 old  == tenants[tid]
                 room == tenants'[tid]
             IN  /\ room # NoRoom
                 /\ IF old = NoRoom
                    THEN /\ rpc[room] = "none" /\ rpc'[room] = "recv"
                         /\ roomTenant'[room] = tid
                         /\ rclients'[room] = {c}
                         /\ rqueue'[room] = <<>>
                    ELSE /\ room = old
                         /\ rpc'[room] = rpc[room]
                         /\ rclients'[room] = rclients[room] \cup {c}
                         /\ rqueue'[room] = rqueue[room]
                 /\ \A t \in Tenants \ {tid} : tenants'[t] = tenants[t]
                 /\ \A r \in Rooms \ {room} :
                       /\ rclients'[r] = rclients[r]
                       /\ rqueue'[r] = rqueue[r]
                       /\ rpc'[r] = rpc[r]
       /\ (hpc = "reg_send" /\ hpc' = "idle")
          => LET c    == harg
                 room == tenants[client[c].TenantID]
             IN  /\ \E id \in 0..MaxTracked :
                       rqueue'[room] = Append(rqueue[room],
                           Message(MessageTypeUserJoined, client[c].UserID,
                                   client[c].TenantID, id,
                                   [user_id |-> client[c].UserID,
                                    user_name |-> client[c].UserName]))
                 /\ \A r \in Rooms \ {room} : rqueue'[r] = rqueue[r]
                 /\ UNCHANGED <<tenants, rclients, rpc>>]_vars

\* A second connection has been registered into the room the first one
\* created, and both join notices are on the room's queue.
RegisterEffectWitness ==
    /\ hpc = "idle"
    /\ \E r \in Rooms :
          /\ rclients[r] = {1, 2}
          /\ Len(rqueue[r]) = 2
          /\ rqueue[r][1].Type = MessageTypeUserJoined
          /\ rqueue[r][1].Data.user_id = client[1].UserID
          /\ rqueue[r][2].Type = MessageTypeUserJoined
          /\ rqueue[r][2].Data.user_id = client[2].UserID

\* C13. Unregister effect: processing unregister(c) for a member c removes
\* c from its room, closes c's outbound queue and puts one UserLeft with c's
\* user id and name on that room's queue, at a time when c is no longer a
\* member, so that the others get it and c does not.
UnregisterEffect ==
    [][/\ \A c \in Built :
             (rp[c] = "read" /\ rp'[c] = "done" /\ IsMember(c))
             => LET room == RoomOf(client[c].TenantID)
                IN  /\ panicked' = NoPanic
                    /\ rclients'[room] = rclients[room] \ {c}
                    /\ closed'[c]
                    /\ hpc' = "unreg_send" /\ harg' = c
       /\ (hpc = "unreg_send" /\ hpc' = "idle")
          => LET c    == harg
                 room == RoomOf(client[c].TenantID)
             IN  /\ c \notin rclients[room]
                 /\ \E id \in 0..MaxTracked :
                       rqueue'[room] = Append(rqueue[room],
                           Message(MessageTypeUserLeft, client[c].UserID,
                                   client[c].TenantID, id,
                                   [user_id |-> client[c].UserID,
                                    user_name |-> client[c].UserName]))
                 /\ \A r \in Rooms \ {room} : rqueue'[r] = rqueue[r]]_vars

\* C14. Last-member disconnect: when the unregister of the only member of
\* a tenant's room has been processed the tenant is no longer in the rooms
\* map, its client count is 0 and it has no online user; the next register
\* for the tenant makes a new room whose only member is the new connection.
LastMemberDisconnect ==
    [][/\ \A tid \in Tenants :
             (/\ hpc = "unreg_send" /\ hpc' = "idle"
              /\ client[harg].TenantID = tid
              /\ rclients[RoomOf(tid)] = {})
             => /\ tenants'[tid] = NoRoom
                /\ GetClientCount(tid)' = 0
                /\ GetOnlineUsers(tid)' = {<<>>}
       /\ \A tid \in Tenants :
             (/\ hpc = "idle" /\ hpc' = "reg_send"
              /\ client'[harg'].TenantID = tid
              /\ tenants[tid] = NoRoom)
             => /\ rpc[tenants'[tid]] = "none"
                /\ rclients'[tenants'[tid]] = {harg'}
                /\ GetClientCount(tid)' = 1]_vars

\* The first connection was the only member of its room and has been
\* unregistered; the second one registered for the same tenant afterwards and
\* is alone in a new room.
LastMemberDisconnectWitness ==
    /\ created = 2
    /\ rp[1] = "done"
    /\ client[1].TenantID = client[2].TenantID
    /\ rpc[1] # "none" /\ rpc[2] # "none"
    /\ RoomOf(client[2].TenantID) = 2
    /\ rclients[2] = {2}
    /\ hpc = "idle"

\* Everything of the hub that can hold a message or a member: the rooms map,
\* the rooms with their member sets, queues and loops, the outbound queues.
hubState == <<tenants, roomTenant, rclients, rqueue, rpc, rmsg, send, closed>>

\* C15. Broadcast to a nonexistent room: a hub-level broadcast that the
\* dispatcher processes for a tenant without a room, whether from a producer
\* or from a connection's frame, is discarded: the rooms map, the member
\* sets, the room queues and the outbound queues stay as they are, no room is
\* created and the message is kept nowhere for a later connection.
BroadcastNoRoom ==
    [][/\ \A tid \in Tenants :
             (/\ BroadcastToTenant(tid, MessageTypeTaskUpdate)
              /\ hpc = "idle"
              /\ tenants[tid] = NoRoom)
             => UNCHANGED <<hubState, enq, rpmsg>>
       /\ \A c \in Built :
             (/\ rp[c] = "send_bcast" /\ rp'[c] = "read"
              /\ tenants[rpmsg[c].TenantID] = NoRoom)
             => /\ UNCHANGED <<hubState, enq>>
                /\ rpmsg'[c] = NoMessage]_vars

\* A producer call has been made while no connection had been accepted, so
\* that no tenant had a room.
BroadcastNoRoomWitness ==
    /\ created = 0
    /\ inputs = 1
    /\ hpc = "idle"
    /\ \A t \in Tenants : tenants[t] = NoRoom

\* The broadcast queue of tenant tid's room is full.
RoomFull(tid) == tenants[tid] # NoRoom /\ Len(rqueue[tenants[tid]]) >= RoomCap

\* C16. Full room queue: a hub-level broadcast routed to a room whose queue
\* is full is discarded, the dispatcher is back in its select at once, and
\* the room stays in the map with its members and queued messages as they
\* were; the dispatcher takes a read pump's message whatever the queue holds.
FullRoomQueue ==
    /\ [][/\ \A tid \in Tenants :
                (/\ BroadcastToTenant(tid, MessageTypeTaskUpdate)
                 /\ hpc = "idle"
                 /\ RoomFull(tid))
                => UNCHANGED <<hubState, enq, hpc>>
          /\ \A c \in Built :
                (/\ rp[c] = "send_bcast" /\ rp'[c] = "read"
                 /\ RoomFull(rpmsg[c].TenantID))
                => UNCHANGED <<hubState, enq, hpc>>]_vars
    /\ [](\A c \in Built :
             (Alive /\ hpc = "idle" /\ rp[c] = "send_bcast")
             => ENABLED RouteFrame(c))

\* The room of the only connection holds its join notice and one tenant
\* broadcast, which fill its queue, and a second input has left no trace.
FullRoomQueueWitness ==
    /\ created = 1
    /\ inputs = 2
    /\ hpc = "idle"
    /\ rp[1] = "read"
    /\ send[1] = <<>>
    /\ Len(rqueue[1]) = RoomCap
    /\ rqueue[1][1].Type = MessageTypeUserJoined
    /\ rqueue[1][2].Type = MessageTypeTaskUpdate

\* The connections in tenant tid's room.
Members(tid) == IF tenants[tid] = NoRoom THEN {} ELSE rclients[tenants[tid]]

\* C17. Presence queries: onlineUsers(T) lists exactly the user ids of the
\* connections in T's room, each once; clientCount(T) is the number of those
\* connections, so it is at least the number of users listed; for a tenant
\* without a room they are empty and 0; and a call changes nothing.
PresenceQueries ==
    /\ [](\A tid \in Tenants :
             /\ GetClientCount(tid) = Cardinality(Members(tid))
             /\ \A users \in GetOnlineUsers(tid) :
                   /\ Range(users) = {client[c].UserID : c \in Members(tid)}
                   /\ Len(users) = Cardinality(Range(users))
                   /\ Len(users) <= GetClientCount(tid)
                   /\ tenants[tid] = NoRoom => users = <<>>)
    /\ [][\A tid \in Tenants :
             WebSocketHandlerGetOnlineUsers(tid) => UNCHANGED vars]_vars

\* The types of the presence messages.
PresenceTypes == {MessageTypeUserJoined, MessageTypeUserLeft}

\* C18. Presence events are hub-only: a UserJoined or UserLeft is added to a
\* room's queue only by the dispatcher finishing a register or an unregister,
\* and it names that connection's user; no frame from a peer, whatever its
\* type, puts one there.
PresenceHubOnly ==
    [][\A r \in Rooms :
          (/\ Len(rqueue'[r]) > Len(rqueue[r])
           /\ rqueue'[r][Len(rqueue'[r])].Type \in PresenceTypes)
          => /\ hpc \in {"reg_send", "unreg_send"}
             /\ hpc' = "idle"
             /\ rqueue'[r][Len(rqueue'[r])].UserID = client[harg].UserID
             /\ rqueue'[r][Len(rqueue'[r])].Data.user_id = client[harg].UserID
             /\ rqueue'[r][Len(rqueue'[r])].Data.user_name
                   = client[harg].UserName]_vars

\* C19. Join visibility: when the room's loop fans out the UserJoined of a
\* connection, every member whose queue is open and has space gets it; a
\* connection that registered after c (connections are numbered in the order
\* of their registration) never has c's UserJoined on its queue.
JoinVisibility ==
    /\ [][\A r \in Rooms :
             (/\ rpc[r] = "fan" /\ rpc'[r] = "recv"
              /\ rmsg[r].Type = MessageTypeUserJoined)
             => \A d \in rclients[r] :
                   (~closed[d] /\ ~Full(d))
                   => send'[d] = Append(send[d], Marshal(rmsg[r]))]_vars
    /\ [](\A c, d \in Built :
             (c < d /\ client[c].UserID # client[d].UserID)
             => \A i \in 1..Len(send[d]) :
                   ~(/\ send[d][i].type = MessageTypeUserJoined
                     /\ send[d][i].data.user_id = client[c].UserID))

\* C20. Malformed frame: a frame that does not parse puts one Error message
\* on the sender's own queue and nothing on another queue or on its way to
\* the hub; the sender's read pump goes on reading, its queue stays open and
\* it stays a member of its room.
MalformedFrame ==
    [][\A c \in Built :
          ReadFrame(c, Garbage)
          => /\ panicked' = NoPanic
             /\ Len(send'[c]) = Len(send[c]) + 1
             /\ send'[c][Len(send'[c])].type = MessageTypeError
             /\ \A i \in 1..Len(send[c]) : send'[c][i] = send[c][i]
             /\ \A d \in Clients \ {c} : send'[d] = send[d]
             /\ UNCHANGED <<rqueue, rpmsg, closed, rclients, tenants>>
             /\ rp'[c] = "read"]_vars

\* The frames of type ping a peer can send.
PingFrames == {f \in Frames : f.json /\ f.type = MessageTypePing}

\* C21. Ping reply is direct: a Ping frame read from connection c puts one
\* Pong, stamped with c's identity, at the end of c's own queue, and leaves
\* the message on its way to the hub, every room queue and every other
\* connection's queue as they were; nothing is closed.
PingReplyDirect ==
    [][\A c \in Built : \A f \in PingFrames :
          ReadFrame(c, f)
          => /\ panicked' = NoPanic
             /\ Len(send'[c]) = Len(send[c]) + 1
             /\ send'[c][Len(send'[c])].type = MessageTypePong
             /\ send'[c][Len(send'[c])].user_id = client[c].UserID
             /\ send'[c][Len(send'[c])].tenant_id = client[c].TenantID
             /\ \A i \in 1..Len(send[c]) : send'[c][i] = send[c][i]
             /\ \A d \in Clients \ {c} : send'[d] = send[d]
             /\ UNCHANGED <<rqueue, rpmsg, closed, rclients, tenants, hpc>>
             /\ rp'[c] = "read"]_vars

\* The frames of type typing a peer can send.
TypingFrames == {f \in Frames : f.json /\ f.type = MessageTypeTyping}

\* C22. Typing fan-out: a Typing frame read from connection c is on its way
\* to the hub stamped with c's identity; the dispatcher puts it on the queue
\* of c's tenant's room when that queue has space; and the room's fan-out of
\* it ends without a fault with the message on the queue of every connection
\* that is a member of the room afterwards, a member with queue space staying
\* one: the sender and the other connections of its user are among them.
TypingFanOut ==
    [][/\ \A c \in Built : \A f \in TypingFrames :
             ReadFrame(c, f)
             => /\ rp'[c] = "send_bcast"
                /\ rpmsg'[c].Type = MessageTypeTyping
                /\ rpmsg'[c].UserID = client[c].UserID
                /\ rpmsg'[c].TenantID = client[c].TenantID
                /\ UNCHANGED <<send, closed, rqueue, rclients>>
       /\ \A c \in Built :
             (/\ rp[c] = "send_bcast" /\ rp'[c] = "read"
              /\ rpmsg[c].Type = MessageTypeTyping
              /\ tenants[client[c].TenantID] # NoRoom
              /\ ~RoomFull(client[c].TenantID))
             => rqueue'[tenants[client[c].TenantID]]
                   = Append(rqueue[tenants[client[c].TenantID]], rpmsg[c])
       /\ \A r \in Rooms :
             (/\ rpc[r] = "fan" /\ rpc'[r] = "recv"
              /\ rmsg[r].Type = MessageTypeTyping)
             => /\ panicked' = NoPanic
                /\ \A d \in rclients[r] : ~Full(d) => d \in rclients'[r]
                /\ \A d \in rclients'[r] :
                      send'[d] = Append(send[d], Marshal(rmsg[r]))]_vars

\* The two modes of TenantRoom.mu (a sync.RWMutex): Lock excludes every other
\* holder, RLock excludes only Lock.
ExclusiveLock == "Lock"
SharedLock    == "RLock"

\* The functions that write to TenantRoom.clients.
Mutators == {"registerClient", "unregisterClient", "run", "BroadcastToUser"}

\* The mode in which each of them holds the room's lock around its write.
RoomLockTaken(op) ==
    CASE op = "registerClient"   -> ExclusiveLock
      [] op = "unregisterClient" -> ExclusiveLock
      [] op = "run"              -> SharedLock
      [] op = "BroadcastToUser"  -> SharedLock

\* The step is a write of op to the member set of room r.
Mutates(op, r) ==
    /\ rclients'[r] # rclients[r]
    /\ CASE op = "registerClient"   -> hpc = "idle" /\ hpc' = "reg_send"
         [] op = "unregisterClient" ->
                \E c \in Built : rp[c] = "read" /\ rp'[c] = "done"
         [] op = "run"              -> rpc[r] = "fan" /\ rpc'[r] = "recv"
         [] op = "BroadcastToUser"  ->
                inputs' = inputs + 1 /\ rpc'[r] = rpc[r]

\* C23. Member-set mutual exclusion: every write to a room's member set, by
\* register, unregister, the fan-out loop's drop or BroadcastToUser's drop, is
\* made under the room's lock held exclusively, and no presence query ranges
\* over a member set while a fan-out is deleting from it.
MemberSetExclusion ==
    [][/\ \A r \in Rooms :
             /\ rclients'[r] # rclients[r] => \E op \in Mutators : Mutates(op, r)
             /\ \A op \in Mutators :
                   Mutates(op, r) => RoomLockTaken(op) = ExclusiveLock
       /\ \A tid \in Tenants :
             (tenants[tid] # NoRoom /\ FanOutDeletes(tenants[tid]))
             => ~ENABLED WebSocketHandlerGetOnlineUsers(tid)]_vars

\* The dispatcher is inside registerClient or unregisterClient, parked on its
\* send to a room queue that has no space.
DispatcherWaits ==
    /\ HubWriteLocked
    /\ RoomFull(client[harg].TenantID)

\* C24. Blast-radius isolation: the dispatcher never waits for space in a
\* room's queue; a room whose queue is full keeps no request of another
\* tenant from the dispatcher, and no other room from fanning out.
BlastRadius ==
    /\ ~DispatcherWaits
    /\ \A tid \in Tenants :
          (Alive /\ RoomFull(tid))
          => /\ \A c \in Built :
                   (client[c].TenantID # tid /\ rp[c] = "read")
                   => ENABLED Unregister(c)
             /\ \A r \in Rooms :
                   (rpc[r] = "fan" /\ roomTenant[r] # tid)
                   => ENABLED RoomFanOut(r)

\* The runtime panics of a channel operation on a closed channel.
ClosedChannelPanics == {"send on closed channel", "close of closed channel"}

\* C25. Closed-queue safety: no producer sends on an outbound queue that has
\* been closed and no outbound queue is closed twice, in any interleaving of
\* the read pumps, the dispatcher, the fan-out loops and BroadcastToUser.
ClosedQueueSafety == panicked \notin ClosedChannelPanics

\* The steps that let a dispatcher parked on its send to the queue of room r
\* go on: the send itself, or the next step of the loop that drains the queue.
DispatcherUnblocks(r) ==
    \/ RegisterSend
    \/ UnregisterSend
    \/ RoomReceive(r)
    \/ RoomFanOut(r)

\* C26. Deadlock freedom: the dispatcher is never blocked for good.  Whenever
\* it is inside a register or an unregister, holding the hub lock, either its
\* send to the room's queue can go through or the room's loop can take its
\* next step towards making space, so that the request is processed and the
\* requests behind it are received.
DeadlockFreedom ==
    (Alive /\ HubWriteLocked)
    => ENABLED DispatcherUnblocks(RoomOf(client[harg].TenantID))

\* The outbound queue of c has been closed by a path that also took c out of
\* its room: unregisterClient, the fan-out's drop or BroadcastToUser's drop.
TornDown(c) == closed[c] /\ \A r \in Rooms : c \notin rclients[r]

\* Both pumps of c have returned and the dispatcher is through with c's
\* unregister request.
Finished(c) == wp[c] = "done" /\ rp[c] = "done" /\ harg # c

\* C27. Teardown liveness: a connection whose outbound queue has been closed
\* goes on to the end of its teardown (write pump over, read pump over,
\* unregister processed): as long as it has not got there the running program
\* can take a step; and once there it is in no member set and nothing of it
\* changes again.
TeardownLiveness ==
    /\ [](\A c \in Built :
             (Alive /\ TornDown(c) /\ ~Finished(c)) => ENABLED Progress)
    /\ [][\A c \in Built :
             (TornDown(c) /\ Finished(c))
             => /\ TornDown(c)' /\ Finished(c)'
                /\ send'[c] = send[c]
                /\ wire'[c] = wire[c]]_vars

\* The rooms of tenant tid whose run goroutine has been started and has not
\* returned.
LiveLoops(tid) ==
    {r \in Rooms : roomTenant[r] = tid /\ rpc[r] \in {"recv", "fan"}}

\* C28. Room loop reclamation: the loop of a room deleted from the rooms map
\* ends, so that a tenant that connects, disconnects and connects again never
\* has more than one fan-out loop alive.
RoomLoopReclamation ==
    \A tid \in Tenants : Cardinality(LiveLoops(tid)) <= 1

\* The message at the end of room r's queue after the step is a UserLeft
\* naming connection c.
LeftEnqueued(r, c) ==
    /\ Len(rqueue'[r]) = Len(rqueue[r]) + 1
    /\ rqueue'[r][Len(rqueue'[r])].Type = MessageTypeUserLeft
    /\ rqueue'[r][Len(rqueue'[r])].UserID = client[c].UserID
    /\ rqueue'[r][Len(rqueue'[r])].TenantID = client[c].TenantID

\* C29. Presence pairing: a connection leaves a member set only with a
\* UserLeft naming it: the step that removes it either puts the UserLeft on
\* the room's queue or is the dispatcher's unregister, whose next step puts it
\* there; and a UserLeft is put there for no other reason.
PresencePairing ==
    [][/\ \A r \in Rooms : \A c \in rclients[r] :
             c \notin rclients'[r]
             => \/ LeftEnqueued(r, c)
                \/ hpc' = "unreg_send" /\ harg' = c
       /\ (hpc = "unreg_send" /\ hpc' = "idle")
             => LeftEnqueued(RoomOf(client[harg].TenantID), harg)
       /\ \A r \in Rooms :
             (/\ Len(rqueue'[r]) > Len(rqueue[r])
              /\ rqueue'[r][Len(rqueue'[r])].Type = MessageTypeUserLeft)
             => \/ hpc = "unreg_send" /\ hpc' = "idle"
                \/ \E c \in Built : rp[c] = "send_bcast" /\ rp'[c] = "read"]_vars

\* C30. BroadcastToTenant submission: the call returns at once whatever the
\* dispatcher is doing, and when the tenant's room exists and its queue has
\* space the message is on that queue after the call.
BroadcastSubmission ==
    /\ [](\A tid \in Tenants :
             (Alive /\ inputs < MaxInputs)
             => ENABLED BroadcastToTenant(tid, MessageTypeTaskUpdate))
    /\ [][\A tid \in Tenants :
             (/\ BroadcastToTenant(tid, MessageTypeTaskUpdate)
              /\ tenants[tid] # NoRoom
              /\ ~RoomFull(tid))
             => /\ Len(rqueue'[tenants[tid]]) = Len(rqueue[tenants[tid]]) + 1
                /\ rqueue'[tenants[tid]][Len(rqueue'[tenants[tid]])].Type
                      = MessageTypeTaskUpdate
                /\ rqueue'[tenants[tid]][Len(rqueue'[tenants[tid]])].TenantID
                      = tid]_vars

====
